---- MODULE Spec2Model ----
(***************************************************************************)
(* point_set: a set of 2-D integer points stored in one flat bit array,    *)
(* indexed through a Cantor pairing of zig-zag encoded coordinates          *)
(* (src/src/lib.rs).                                                        *)
(*                                                                          *)
(* Machine integers are 64 bits wide in the source.  They are represented   *)
(* here by their 64-bit pattern, written as a little-endian sequence of     *)
(* limbs in base 2^15 without leading zero limbs (<<>> is 0), so that the   *)
(* arithmetic keeps the source's width.  A panic (an arithmetic overflow     *)
(* in a build with overflow checks) is the value Panic.                     *)
(***************************************************************************)
EXTENDS Integers, Sequences, FiniteSets

\* ------------------------------------------------------------------------
\* Arbitrary-precision naturals (limb sequences)
\* ------------------------------------------------------------------------

Base == 2 ^ 15

RECURSIVE LimbLen(_)
LimbLen(k) == IF k = 0 THEN 0 ELSE 1 + LimbLen(k \div 2)

LimbBits == LimbLen(Base) - 1

RECURSIVE NTrim(_)
NTrim(s) ==
    IF s = <<>> THEN s
    ELSE IF s[Len(s)] = 0 THEN NTrim(SubSeq(s, 1, Len(s) - 1))
    ELSE s

RECURSIVE NFromNat(_)
NFromNat(n) ==
    IF n = 0 THEN <<>> ELSE <<n % Base>> \o NFromNat(n \div Base)

RECURSIVE NToNat(_)
NToNat(a) ==
    IF a = <<>> THEN 0 ELSE Head(a) + Base * NToNat(Tail(a))

RECURSIVE NAddC(_, _, _)
NAddC(a, b, c) ==
    IF a = <<>> /\ b = <<>> THEN (IF c = 0 THEN <<>> ELSE <<c>>)
    ELSE LET x == IF a = <<>> THEN 0 ELSE Head(a)
             y == IF b = <<>> THEN 0 ELSE Head(b)
             t == x + y + c
         IN  <<t % Base>> \o NAddC(IF a = <<>> THEN a ELSE Tail(a),
                                   IF b = <<>> THEN b ELSE Tail(b),
                                   t \div Base)

NAdd(a, b) == NAddC(a, b, 0)

\* a - b for a >= b
RECURSIVE NSubB(_, _, _)
NSubB(a, b, c) ==
    IF a = <<>> THEN <<>>
    ELSE LET y == IF b = <<>> THEN 0 ELSE Head(b)
             t == Head(a) - y - c
         IN  <<t % Base>> \o NSubB(Tail(a),
                                   IF b = <<>> THEN b ELSE Tail(b),
                                   IF t < 0 THEN 1 ELSE 0)

NSub(a, b) == NTrim(NSubB(a, b, 0))

\* -1 / 0 / 1 as a < b, a = b, a > b
RECURSIVE NCmpFrom(_, _, _)
NCmpFrom(a, b, i) ==
    IF i = 0 THEN 0
    ELSE IF a[i] < b[i] THEN -1
    ELSE IF a[i] > b[i] THEN 1
    ELSE NCmpFrom(a, b, i - 1)

NCmp(a, b) ==
    IF Len(a) < Len(b) THEN -1
    ELSE IF Len(a) > Len(b) THEN 1
    ELSE NCmpFrom(a, b, Len(a))

NLess(a, b) == NCmp(a, b) < 0
NLeq(a, b) == NCmp(a, b) <= 0

\* a * k for a limb k
RECURSIVE NMulSmallC(_, _, _)
NMulSmallC(a, k, c) ==
    IF a = <<>> THEN (IF c = 0 THEN <<>> ELSE <<c>>)
    ELSE LET t == Head(a) * k + c
         IN  <<t % Base>> \o NMulSmallC(Tail(a), k, t \div Base)

NMulSmall(a, k) == NTrim(NMulSmallC(a, k, 0))

RECURSIVE NMulRaw(_, _)
NMulRaw(a, b) ==
    IF b = <<>> THEN <<>>
    ELSE NAdd(NMulSmallC(a, Head(b), 0), <<0>> \o NMulRaw(a, Tail(b)))

NMul(a, b) == NTrim(NMulRaw(a, b))

\* floor(a / k) for a limb k > 0, from the most significant limb down
RECURSIVE NDivSmallR(_, _, _, _)
NDivSmallR(a, k, i, r) ==
    IF i = 0 THEN <<>>
    ELSE LET t == r * Base + a[i]
         IN  NDivSmallR(a, k, i - 1, t % k) \o <<t \div k>>

NDivSmall(a, k) == NTrim(NDivSmallR(a, k, Len(a), 0))

NZeros(n) == [i \in 1..n |-> 0]

NShl(a, n) ==
    IF a = <<>> \/ n = 0 THEN a
    ELSE NZeros(n \div LimbBits) \o NMulSmall(a, 2 ^ (n % LimbBits))

NShr(a, n) ==
    IF n \div LimbBits >= Len(a) THEN <<>>
    ELSE NDivSmall(SubSeq(a, (n \div LimbBits) + 1, Len(a)), 2 ^ (n % LimbBits))

NPow2(n) == NShl(<<1>>, n)

NBitLen(a) ==
    IF a = <<>> THEN 0 ELSE LimbBits * (Len(a) - 1) + LimbLen(a[Len(a)])

NIsOdd(a) == a # <<>> /\ Head(a) % 2 = 1

\* a mod 2^n
NLowBits(a, n) == IF NBitLen(a) <= n THEN a ELSE NSub(a, NShl(NShr(a, n), n))

\* floor(sqrt(n)) of a native n < Base^2, bit by bit from 2^b down
RECURSIVE NatISqrt(_, _, _)
NatISqrt(n, r, b) ==
    IF b < 0 THEN r
    ELSE IF (r + 2 ^ b) * (r + 2 ^ b) <= n THEN NatISqrt(n, r + 2 ^ b, b - 1)
    ELSE NatISqrt(n, r, b - 1)

\* an upper estimate of floor(rem / D) for D # 0, capped at Base - 1: both
\* are shifted until D's top limb has its top bit set (Dn, Rn), then the
\* two top limbs of Rn are divided by the top limb of Dn
SqrtDigitQuot(Dn, Rn) ==
    LET n   == Len(Dn)
        top == (IF Len(Rn) > n THEN Rn[n + 1] * Base ELSE 0)
               + (IF Len(Rn) >= n THEN Rn[n] ELSE 0)
    IN  IF Len(Rn) > n + 1 \/ top \div Dn[n] > Base - 1 THEN Base - 1
        ELSE top \div Dn[n]

SqrtDigitShifted(D, rem, s) == SqrtDigitQuot(NShl(D, s), NShl(rem, s))

SqrtDigitEstimate(D, rem) ==
    SqrtDigitShifted(D, rem, LimbBits - LimbLen(D[Len(D)]))

\* the largest d <= hi with (D + d) * d <= rem
RECURSIVE SqrtDigit(_, _, _)
SqrtDigit(D, rem, hi) ==
    IF hi = 0 \/ NLeq(NMulSmall(NAdd(D, <<hi>>), hi), rem) THEN hi
    ELSE SqrtDigit(D, rem, hi - 1)

\* floor(sqrt(a)) by the long-hand method in base Base: the limbs of a are
\* taken in pairs from the top, each pair giving one limb d of the root r;
\* rm is the remainder with the pair appended, D is 2 * r * Base
RECURSIVE NISqrtPairs(_, _, _, _)

NISqrtNext(a, i, r, rm, D, d) ==
    NISqrtPairs(a, i - 2, NTrim(<<d>> \o r),
                NSub(rm, NMulSmall(NAdd(D, <<d>>), d)))

NISqrtDigit(a, i, r, rm, D) ==
    NISqrtNext(a, i, r, rm, D,
               IF r = <<>> THEN NatISqrt(NToNat(rm), 0, LimbBits - 1)
               ELSE SqrtDigit(D, rm, SqrtDigitEstimate(D, rm)))

NISqrtPairs(a, i, r, rem) ==
    IF i < 1 THEN r
    ELSE NISqrtDigit(a, i, r,
                     NTrim(<<a[i], IF i < Len(a) THEN a[i + 1] ELSE 0>> \o rem),
                     IF r = <<>> THEN <<>> ELSE <<0>> \o NMulSmall(r, 2))

NISqrt(a) ==
    NISqrtPairs(a, IF Len(a) % 2 = 1 THEN Len(a) ELSE Len(a) - 1, <<>>, <<>>)

\* ------------------------------------------------------------------------
\* 64-bit machine integers
\* ------------------------------------------------------------------------

\* The build profile: TRUE when arithmetic overflow panics (Rust's
\* overflow-checks, the default of dev and test builds), FALSE when it wraps
\* (the default of release builds).
VARIABLES overflow_checks

\* width of u64 and i64
U64Bits == 64

TwoTo64 == NPow2(U64Bits)
TwoTo63 == NPow2(U64Bits - 1)
U64Max == NSub(TwoTo64, <<1>>)

Panic == <<-1>>

U64(n) == NFromNat(n)

\* the u64 holding the mathematical result v >= 0 of an operation
u64_checked(v) ==
    IF NLess(v, TwoTo64) THEN v
    ELSE IF overflow_checks THEN Panic
    ELSE NLowBits(v, U64Bits)

u64_add(a, b) ==
    IF a = Panic \/ b = Panic THEN Panic ELSE u64_checked(NAdd(a, b))

u64_mul(a, b) ==
    IF a = Panic \/ b = Panic THEN Panic ELSE u64_checked(NMul(a, b))

u64_sub(a, b) ==
    IF a = Panic \/ b = Panic THEN Panic
    ELSE IF NLeq(b, a) THEN NSub(a, b)
    ELSE IF overflow_checks THEN Panic
    ELSE NSub(NAdd(a, TwoTo64), b)

RECURSIVE u64_pow(_, _)
u64_pow(a, n) == IF n = 0 THEN <<1>> ELSE u64_mul(a, u64_pow(a, n - 1))

\* division and remainder by a small non-zero constant never overflow
u64_div(a, k) == IF a = Panic THEN Panic ELSE NDivSmall(a, k)

u64_rem(a, k) == IF a = Panic THEN Panic ELSE NSub(a, NMulSmall(NDivSmall(a, k), k))

\* An i64 is its two's complement pattern: negative from 2^63 up.
i64_is_neg(p) == ~NLess(p, TwoTo63)

i64_mag(p) == IF i64_is_neg(p) THEN NSub(TwoTo64, p) ELSE p

\* the pattern of the integer (-1)^neg * mag, reduced modulo 2^64
i64_pattern(neg, mag) ==
    LET low == NLowBits(mag, U64Bits)
    IN  IF neg /\ low # <<>> THEN NSub(TwoTo64, low) ELSE low

I64(n) == i64_pattern(n < 0, NFromNat(IF n < 0 THEN -n ELSE n))

\* the i64 holding the mathematical result (-1)^neg * mag of an operation
i64_checked(neg, mag) ==
    IF (IF neg THEN NLeq(mag, TwoTo63) ELSE NLess(mag, TwoTo63))
    THEN i64_pattern(neg, mag)
    ELSE IF overflow_checks THEN Panic
    ELSE i64_pattern(neg, mag)

i64_mul(a, b) ==
    IF a = Panic \/ b = Panic THEN Panic
    ELSE i64_checked(i64_is_neg(a) # i64_is_neg(b), NMul(i64_mag(a), i64_mag(b)))

i64_abs(a) ==
    IF a = Panic THEN Panic ELSE i64_checked(FALSE, i64_mag(a))

i64_neg(a) ==
    IF a = Panic THEN Panic ELSE i64_checked(~i64_is_neg(a), i64_mag(a))

i64_sub(a, b) ==
    IF a = Panic \/ b = Panic THEN Panic
    ELSE LET an == i64_is_neg(a)
             bn == ~i64_is_neg(b)      \* the sign of -b
             am == i64_mag(a)
             bm == i64_mag(b)
         IN  IF an = bn THEN i64_checked(an, NAdd(am, bm))
             ELSE IF NLeq(bm, am) THEN i64_checked(an, NSub(am, bm))
             ELSE i64_checked(bn, NSub(bm, am))

\* `as u64` of an i64, `as i64` of a u64: the same 64 bits
i64_as_u64(p) == p
u64_as_i64(p) == p

\* ------------------------------------------------------------------------
\* f64 (IEEE 754 binary64, round to nearest even)
\* ------------------------------------------------------------------------

\* bits of the f64 significand
F64Mant == 53

\* A finite f64 is (-1)^neg * m * 2^e with 2^52 <= m < 2^53, or m = 0.
F64Zero == [neg |-> FALSE, m |-> <<>>, e |-> 0]

\* what a float expression is after one of its integer operands panicked
F64Panic == [neg |-> FALSE, m |-> Panic, e |-> 0]

\* q is a significand of F64Mant bits, or 2^F64Mant after rounding up
f64_renorm(neg, q, e) ==
    IF NBitLen(q) > F64Mant THEN [neg |-> neg, m |-> NShr(q, 1), e |-> e + 1]
    ELSE [neg |-> neg, m |-> q, e |-> e]

\* q is the kept significand, c compares the dropped bits with one half
f64_round_half(neg, q, e, c, sticky) ==
    f64_renorm(neg,
               IF c > 0 \/ (c = 0 /\ (sticky \/ NIsOdd(q))) THEN NAdd(q, <<1>>) ELSE q,
               e)

\* M # 0 has bl bits
f64_round_bits(neg, M, e, sticky, bl) ==
    IF bl <= F64Mant
    THEN [neg |-> neg, m |-> NShl(M, F64Mant - bl), e |-> e - (F64Mant - bl)]
    ELSE f64_round_half(neg, NShr(M, bl - F64Mant), e + (bl - F64Mant),
                        NCmp(NLowBits(M, bl - F64Mant), NPow2(bl - F64Mant - 1)),
                        sticky)

\* The f64 nearest to (-1)^neg * (M + f) * 2^e (ties to even), where
\* 0 <= f < 1 and f > 0 exactly when sticky; with sticky set the caller
\* passes M of more than F64Mant + 1 bits.
f64_round(neg, M, e, sticky) ==
    IF M = <<>> THEN F64Zero ELSE f64_round_bits(neg, M, e, sticky, NBitLen(M))

\* the literals 1.0 and 2.0
F64One == f64_round(FALSE, <<1>>, 0, FALSE)
F64Two == f64_round(FALSE, <<2>>, 0, FALSE)

\* `as f64` of a u64
u64_as_f64(v) == IF v = Panic THEN F64Panic ELSE f64_round(FALSE, v, 0, FALSE)

\* r is floor(sqrt(M)) and the result is sqrt(M) * 2^e
f64_sqrt_root(M, e, r) == f64_round(FALSE, r, e, NMul(r, r) # M)

f64_sqrt_scaled(M, e) == f64_sqrt_root(M, e, NISqrt(M))

\* sqrt of a non-negative f64, correctly rounded: the integer square root
\* of the significand scaled to an even exponent with F64Mant + 3 more bits
f64_sqrt(f) ==
    IF f = F64Panic THEN f
    ELSE IF f.m = <<>> THEN f
    ELSE IF f.e % 2 = 1
    THEN f64_sqrt_scaled(NShl(f.m, F64Mant + 4), (f.e - 1 - (F64Mant + 3)) \div 2)
    ELSE f64_sqrt_scaled(NShl(f.m, F64Mant + 3), (f.e - (F64Mant + 3)) \div 2)

\* (-1)^an * am * 2^e + (-1)^bn * bm * 2^e
f64_add_aligned(an, am, bn, bm, e) ==
    IF an = bn THEN f64_round(an, NAdd(am, bm), e, FALSE)
    ELSE IF NLeq(bm, am) THEN f64_round(an, NSub(am, bm), e, FALSE)
    ELSE f64_round(bn, NSub(bm, am), e, FALSE)

f64_min_exp(a, b) == IF a.e < b.e THEN a.e ELSE b.e

f64_sub(a, b) ==
    IF a = F64Panic \/ b = F64Panic THEN F64Panic
    ELSE f64_add_aligned(a.neg, NShl(a.m, a.e - f64_min_exp(a, b)),
                         ~b.neg, NShl(b.m, b.e - f64_min_exp(a, b)),
                         f64_min_exp(a, b))

\* a / b for b a power of two (the source divides by 2.0 only): exact
f64_div(a, b) ==
    IF a = F64Panic \/ b = F64Panic THEN F64Panic
    ELSE IF a.m = <<>> THEN a
    ELSE [a EXCEPT !.e = @ - (b.e + F64Mant - 1)]

f64_floor(a) ==
    IF a = F64Panic THEN a
    ELSE IF a.e >= 0 THEN a
    ELSE LET q    == NShr(a.m, -a.e)
             frac == NLowBits(a.m, -a.e) # <<>>
         IN  f64_round(a.neg, IF a.neg /\ frac THEN NAdd(q, <<1>>) ELSE q, 0, FALSE)

u64_saturate(v) == IF NLess(v, TwoTo64) THEN v ELSE U64Max

\* `as u64` of an f64: truncates toward zero and saturates
f64_as_u64(a) ==
    IF a = F64Panic THEN Panic
    ELSE IF a.neg THEN <<>>
    ELSE IF a.e < 0 THEN NShr(a.m, -a.e)
    ELSE u64_saturate(NShl(a.m, a.e))

\* ------------------------------------------------------------------------
\* The pairing function (src/src/lib.rs, lines 37-68)
\* ------------------------------------------------------------------------

naturalize(n) ==
    LET base == i64_abs(i64_mul(n, I64(2)))
    IN  i64_as_u64(IF i64_is_neg(n) THEN i64_sub(base, I64(1)) ELSE base)

\* rem is n % 2
denaturalize_rem(n, rem) ==
    LET abs == u64_as_i64(u64_div(u64_add(n, rem), 2))
    IN  IF rem = U64(1) THEN i64_neg(abs) ELSE abs

denaturalize(n) == denaturalize_rem(n, u64_rem(n, 2))

\* the polynomial of the superseded variant of the formula
cantor_polynomial_superseded(x, y) ==
    u64_div(u64_add(u64_add(u64_add(u64_add(u64_pow(x, 2), u64_mul(U64(3), x)),
                                    u64_mul(u64_mul(U64(2), x), y)),
                            y),
                    u64_pow(y, 2)),
            2)

\* line 41, x and y being the naturalized coordinates
cantor_polynomial(x, y) ==
    u64_div(u64_add(u64_add(u64_add(u64_add(u64_pow(x, 2), x),
                                    u64_mul(u64_mul(U64(2), x), y)),
                            u64_mul(U64(3), y)),
                    u64_pow(y, 2)),
            2)

cantor_pairing(x, y) == cantor_polynomial(naturalize(x), naturalize(y))

\* line 45: the diagonal number, computed in floating point
cantor_diagonal(z) ==
    f64_as_u64(f64_floor(f64_div(
        f64_sub(f64_sqrt(u64_as_f64(u64_add(u64_mul(U64(8), z), U64(1)))), F64One),
        F64Two)))

\* line 49, x and y being the denaturalized results
cantor_unpairing_result(x, y) ==
    IF x = Panic \/ y = Panic THEN Panic ELSE <<x, y>>

\* x and y taken the other way round
cantor_unpairing_y_swapped(w, y) ==
    cantor_unpairing_result(denaturalize(y), denaturalize(u64_sub(w, y)))

\* lines 48-49
cantor_unpairing_y(w, y) ==
    cantor_unpairing_result(denaturalize(u64_sub(w, y)), denaturalize(y))

\* lines 46-47
cantor_unpairing_w(z, w) ==
    LET t == u64_div(u64_add(u64_pow(w, 2), w), 2)
    IN  cantor_unpairing_y(w, u64_sub(z, t))

cantor_unpairing(z) == cantor_unpairing_w(z, cantor_diagonal(z))

\* ------------------------------------------------------------------------
\* bits::BitArray, the external bit storage (its contract: spec section 6).
\* A BitArray is the sequence of its bits; bit i is element i + 1.
\* ------------------------------------------------------------------------

BitArray_default == <<>>

BitArray_len(bits) == U64(Len(bits))

\* grows the storage up to the index when the index is beyond its length
BitArray_set(bits, index, value) ==
    LET i == NToNat(index) + 1
        n == IF i > Len(bits) THEN i ELSE Len(bits)
    IN  [j \in 1..n |-> IF j = i THEN value ELSE j <= Len(bits) /\ bits[j]]

BitArray_is_set(bits, index) == bits[NToNat(index) + 1]

BitArray_count_bits_on(bits) == U64(Cardinality({j \in 1..Len(bits) : bits[j]}))

\* &a | &b: the shorter operand is extended with zeros
BitArray_or(a, b) ==
    [j \in 1..(IF Len(a) > Len(b) THEN Len(a) ELSE Len(b)) |->
        (j <= Len(a) /\ a[j]) \/ (j <= Len(b) /\ b[j])]

\* ------------------------------------------------------------------------
\* PointSet (src/src/lib.rs, lines 3-35)
\* ------------------------------------------------------------------------

PointSet_default == [members |-> BitArray_default]

PointSet_insert(self, x, y) ==
    [self EXCEPT !.members = BitArray_set(@, cantor_pairing(x, y), TRUE)]

\* the bounds check alone
PointSet_contains_index_in_bounds(self, index) ==
    NLess(index, BitArray_len(self.members))

\* line 15, index being cantor_pairing(x, y)
PointSet_contains_index(self, index) ==
    NLess(index, BitArray_len(self.members)) /\ BitArray_is_set(self.members, index)

PointSet_contains(self, x, y) == PointSet_contains_index(self, cantor_pairing(x, y))

\* the storage length instead of the population count
PointSet_len_storage(self) == BitArray_len(self.members)

PointSet_len(self) == BitArray_count_bits_on(self.members)

\* an OR that stops at the end of the shorter storage
PointSet_union_truncating(self, other) ==
    [members |->
        [j \in 1..(IF Len(self.members) < Len(other.members)
                   THEN Len(self.members) ELSE Len(other.members)) |->
            self.members[j] \/ other.members[j]]]

PointSet_union(self, other) ==
    [members |-> BitArray_or(self.members, other.members)]

\* the items iter() yields, in order: enumerate, filter the bits that are
\* on, map the index (usize as u64) through cantor_unpairing
RECURSIVE IterFrom(_, _)
IterFrom(bits, i) ==
    IF i > Len(bits) THEN <<>>
    ELSE (IF bits[i] THEN <<cantor_unpairing(U64(i - 1))>> ELSE <<>>)
         \o IterFrom(bits, i + 1)

\* every index of the storage, the filter left out
PointSet_iter_unfiltered(self) ==
    [i \in 1..Len(self.members) |-> cantor_unpairing(U64(i - 1))]

PointSet_iter(self) == IterFrom(self.members, 1)

\* ------------------------------------------------------------------------
\* State
\* ------------------------------------------------------------------------

VARIABLES
    sets,       \* the PointSets of the program, by name
    inserted,   \* history: the coordinates passed to insert, per set
    last        \* the last call made and what it returned (for insert:
                \* whether the coordinate was new to the set)

vars == <<overflow_checks, sets, inserted, last>>

SetNames == {"a", "b"}

\* the coordinates the program inserts (their indices: 0, 1, 7, 17)
Points == {<<0, 0>>, <<-1, 0>>, <<1, -1>>, <<-2, 1>>}

\* coordinates it never inserts: index 2, inside the storage of a set that
\* holds a later point, and index 40, beyond every storage
Absent == {<<0, -1>>, <<2, 2>>}

Coords == Points \union Absent

\* at most this many members per set
MaxMembers == 2

Init ==
    /\ overflow_checks \in BOOLEAN
    /\ sets = [s \in SetNames |-> PointSet_default]
    /\ inserted = [s \in SetNames |-> {}]
    /\ last = [op |-> "none"]

Insert(s, x, y) ==
    /\ Cardinality(inserted[s] \union {<<x, y>>}) <= MaxMembers
    /\ sets' = [sets EXCEPT ![s] = PointSet_insert(@, I64(x), I64(y))]
    /\ inserted' = [inserted EXCEPT ![s] = @ \union {<<x, y>>}]
    /\ last' = [op |-> "insert", set |-> s, x |-> x, y |-> y,
                fresh |-> <<x, y>> \notin inserted[s]]
    /\ UNCHANGED overflow_checks

\* a contains that grows the storage up to the index it probes
Contains_growing(s, x, y) ==
    /\ last' = [op |-> "contains", set |-> s, x |-> x, y |-> y,
                ret |-> PointSet_contains(sets[s], I64(x), I64(y))]
    /\ sets' = [sets EXCEPT ![s].members =
                    BitArray_set(@, cantor_pairing(I64(x), I64(y)),
                                 PointSet_contains(sets[s], I64(x), I64(y)))]
    /\ UNCHANGED <<overflow_checks, inserted>>

Contains(s, x, y) ==
    /\ last' = [op |-> "contains", set |-> s, x |-> x, y |-> y,
                ret |-> PointSet_contains(sets[s], I64(x), I64(y))]
    /\ UNCHANGED <<overflow_checks, sets, inserted>>

LenOf(s) ==
    /\ last' = [op |-> "len", set |-> s, ret |-> PointSet_len(sets[s])]
    /\ UNCHANGED <<overflow_checks, sets, inserted>>

Union(s, t) ==
    /\ last' = [op |-> "union", set |-> s, other |-> t,
                ret |-> PointSet_union(sets[s], sets[t])]
    /\ UNCHANGED <<overflow_checks, sets, inserted>>

Iter(s) ==
    /\ last' = [op |-> "iter", set |-> s, ret |-> PointSet_iter(sets[s])]
    /\ UNCHANGED <<overflow_checks, sets, inserted>>

Next ==
    \/ \E s \in SetNames, p \in Points : Insert(s, p[1], p[2])
    \/ \E s \in SetNames, p \in Coords : Contains(s, p[1], p[2])
    \/ \E s \in SetNames : LenOf(s)
    \/ \E s \in SetNames, t \in SetNames : Union(s, t)
    \/ \E s \in SetNames : Iter(s)

Spec == Init /\ [][Next]_vars

\* ------------------------------------------------------------------------
\* The pairing functions on their own: Init draws one call, the action of
\* the function called applies it.
\* ------------------------------------------------------------------------

\* small magnitudes: -MaxSmall..MaxSmall
MaxSmall == 3

\* how far around each boundary value the inputs reach
MaxDelta == 1

\* indices 0..MaxIndex are unpaired (the tests unpair 0..20)
MaxIndex == 40

Deltas == -MaxDelta..MaxDelta

\* the magnitude 2^e + d
NearPow2(e, d) == IF d < 0 THEN NSub(NPow2(e), U64(-d)) ELSE NAdd(NPow2(e), U64(d))

\* Powers of two where the source's arithmetic changes behaviour: 2^26 (the
\* square root of 8z + 1 leaves the f64 significand), 2^30 and 2^31 (the
\* pairing polynomial leaves u64), 2^62 and 2^63 (n * 2 leaves i64).
I64Exps == {26, 30, 31, 62, 63}

\* whether (-1)^neg * mag is an i64
i64_fits(neg, mag) == IF neg THEN NLeq(mag, TwoTo63) ELSE NLess(mag, TwoTo63)

I64Inputs ==
    {I64(n) : n \in -MaxSmall..MaxSmall}
    \union {i64_pattern(t[1], NearPow2(t[2], t[3])) :
                t \in {u \in BOOLEAN \X I64Exps \X Deltas :
                          i64_fits(u[1], NearPow2(u[2], u[3]))}}

Triangular(w) == NDivSmall(NMul(w, NAdd(w, <<1>>)), 2)

\* Indices where the source's arithmetic changes behaviour: the start of the
\* diagonals 2^27 and 2^31, and 2^53, 2^61 (8z + 1 leaves u64) and 2^63.
U64Exps == {53, 61, 63}
DiagExps == {27, 31}

U64Inputs ==
    {U64(n) : n \in 0..MaxIndex}
    \union {NearPow2(e, d) : e \in U64Exps, d \in Deltas}
    \union {NSub(NAdd(Triangular(NPow2(k)), U64(MaxDelta + d)), U64(MaxDelta)) :
                k \in DiagExps, d \in Deltas}
    \union {NSub(U64Max, U64(d)) : d \in 0..MaxDelta}

Calls ==
    {[op |-> "call", fn |-> "naturalize", n |-> n] : n \in I64Inputs}
    \union {[op |-> "call", fn |-> "denaturalize", n |-> n] : n \in U64Inputs}
    \union {[op |-> "call", fn |-> "cantor_pairing", x |-> x, y |-> y] :
                x \in I64Inputs, y \in I64Inputs}
    \union {[op |-> "call", fn |-> "cantor_unpairing", z |-> z] : z \in U64Inputs}

InitNum ==
    /\ overflow_checks \in BOOLEAN
    /\ sets = [s \in SetNames |-> PointSet_default]
    /\ inserted = [s \in SetNames |-> {}]
    /\ last \in Calls

Pending(fn) == last.op = "call" /\ last.fn = fn

CallNaturalize ==
    /\ Pending("naturalize")
    /\ last' = [op |-> "naturalize", n |-> last.n, ret |-> naturalize(last.n)]
    /\ UNCHANGED <<overflow_checks, sets, inserted>>

CallDenaturalize ==
    /\ Pending("denaturalize")
    /\ last' = [op |-> "denaturalize", n |-> last.n, ret |-> denaturalize(last.n)]
    /\ UNCHANGED <<overflow_checks, sets, inserted>>

CallPairing ==
    /\ Pending("cantor_pairing")
    /\ last' = [op |-> "cantor_pairing", x |-> last.x, y |-> last.y,
                ret |-> cantor_pairing(last.x, last.y)]
    /\ UNCHANGED <<overflow_checks, sets, inserted>>

CallUnpairing ==
    /\ Pending("cantor_unpairing")
    /\ last' = [op |-> "cantor_unpairing", z |-> last.z,
                ret |-> cantor_unpairing(last.z)]
    /\ UNCHANGED <<overflow_checks, sets, inserted>>

NextNum ==
    \/ CallNaturalize
    \/ CallDenaturalize
    \/ CallPairing
    \/ CallUnpairing

SpecNum == InitNum /\ [][NextNum]_vars

\* ------------------------------------------------------------------------
\* Properties
\* ------------------------------------------------------------------------

\* the zig-zag code of the i64 n, in unbounded arithmetic
Zigzag(n) ==
    IF i64_is_neg(n) THEN NSub(NMulSmall(i64_mag(n), 2), <<1>>)
    ELSE NMulSmall(n, 2)

\* T(nx + ny) + ny, in unbounded arithmetic
PairExact(x, y) ==
    NAdd(Triangular(NAdd(Zigzag(x), Zigzag(y))), Zigzag(y))

\* |n| < 2^e
MagBelow(n, e) == NLess(i64_mag(n), NPow2(e))

Index(p) == cantor_pairing(I64(p[1]), I64(p[2]))

AsI64Pair(p) == <<I64(p[1]), I64(p[2])>>

SmallBox == (-MaxSmall..MaxSmall) \X (-MaxSmall..MaxSmall)

\* C1: after any sequence of inserts, contains(x, y) returns true exactly
\* when (x, y) was inserted into that set before; so it is false on a fresh
\* set, false for an index at or beyond the storage length, and an insert
\* changes the membership of no other coordinate.
C1_ContainsIffInserted ==
    last.op = "contains" =>
        last.ret = (<<last.x, last.y>> \in inserted[last.set])

\* contains answered false for an index beyond the storage of a set that
\* has members
C1_Witness ==
    /\ last.op = "contains"
    /\ last.ret = FALSE
    /\ inserted[last.set] # {}
    /\ NLeq(BitArray_len(sets[last.set].members), Index(<<last.x, last.y>>))

\* C2: len() is the number of distinct coordinates inserted so far; an
\* insert of a new coordinate raises it by exactly 1, an insert of a present
\* coordinate leaves the length and the whole storage as they were.
C2_LenCountsDistinctInserts ==
    [][\A s \in SetNames :
          /\ PointSet_len(sets'[s]) = U64(Cardinality(inserted'[s]))
          /\ (last'.op = "insert" /\ last'.set = s) =>
                IF <<last'.x, last'.y>> \in inserted[s]
                THEN sets'[s] = sets[s]
                ELSE PointSet_len(sets'[s]) = u64_add(PointSet_len(sets[s]), U64(1))
      ]_vars

\* a coordinate was inserted a second time into a set of two members
C2_Witness ==
    /\ last.op = "insert"
    /\ ~last.fresh
    /\ PointSet_len(sets[last.set]) = U64(2)

\* C3: A.union(B) contains p exactly when A or B contains p, and its len()
\* is the size of the union of the members, whatever the storage lengths.
C3_UnionIsSetUnion ==
    last.op = "union" =>
        /\ \A p \in Coords :
              PointSet_contains(last.ret, I64(p[1]), I64(p[2]))
              = (PointSet_contains(sets[last.set], I64(p[1]), I64(p[2]))
                 \/ PointSet_contains(sets[last.other], I64(p[1]), I64(p[2])))
        /\ PointSet_len(last.ret)
           = U64(Cardinality(inserted[last.set] \union inserted[last.other]))

\* the union of a shorter storage with a longer one, the two sets sharing
\* one member of three
C3_Witness ==
    /\ last.op = "union"
    /\ Len(sets[last.set].members) < Len(sets[last.other].members)
    /\ Cardinality(inserted[last.set] \intersect inserted[last.other]) = 1
    /\ PointSet_len(last.ret) = U64(3)

\* C4: iter() yields every member exactly once and nothing else, in
\* strictly ascending order of the pairing index, len() items in all.
C4_IterYieldsMembersByIndex ==
    last.op = "iter" =>
        /\ {last.ret[i] : i \in 1..Len(last.ret)}
           = {AsI64Pair(p) : p \in inserted[last.set]}
        /\ U64(Len(last.ret)) = PointSet_len(sets[last.set])
        /\ \A i \in 1..(Len(last.ret) - 1) :
              NLess(cantor_pairing(last.ret[i][1], last.ret[i][2]),
                    cantor_pairing(last.ret[i + 1][1], last.ret[i + 1][2]))

\* two members come out by index, against the order of x
C4_Witness ==
    /\ last.op = "iter"
    /\ last.ret = <<AsI64Pair(<<0, 0>>), AsI64Pair(<<-1, 0>>)>>

\* C5: contains, len, iter and union leave every set's storage as it was
\* (its length too); an insert touches only its own set; and no step ever
\* turns a bit off or shortens a storage.
C5_OnlyInsertMutates ==
    [][/\ last'.op \in {"contains", "len", "iter", "union"} => sets' = sets
       /\ last'.op = "insert" =>
             \A s \in SetNames \ {last'.set} : sets'[s] = sets[s]
       /\ \A s \in SetNames :
             /\ Len(sets'[s].members) >= Len(sets[s].members)
             /\ \A j \in 1..Len(sets[s].members) :
                   sets[s].members[j] => sets'[s].members[j]
      ]_vars

\* contains probed index 40 of a set whose storage has length 1, and the
\* length is still 1
C5_Witness ==
    /\ last.op = "contains"
    /\ <<last.x, last.y>> = <<2, 2>>
    /\ inserted[last.set] = {<<0, 0>>}
    /\ BitArray_len(sets[last.set].members) = U64(1)

\* C6: cantor_unpairing(cantor_pairing(x, y)) = (x, y) for every pair whose
\* index cantor_pairing computed without overflow.
C6_UnpairingInvertsPairing ==
    (last.op = "cantor_pairing" /\ last.ret = PairExact(last.x, last.y)) =>
        cantor_unpairing(last.ret) = <<last.x, last.y>>

\* C7: for every index i of the tested range 0..MaxIndex,
\* cantor_pairing(cantor_unpairing(i)) = i, and no other coordinate of the
\* small box has index i.
C7_PairingInvertsUnpairing ==
    (last.op = "cantor_unpairing" /\ NLeq(last.z, U64(MaxIndex))) =>
        /\ last.ret # Panic
        /\ cantor_pairing(last.ret[1], last.ret[2]) = last.z
        /\ \A p \in SmallBox : Index(p) = last.z => last.ret = AsI64Pair(p)

\* index 20 was unpaired to (0, -3)
C7_Witness ==
    /\ last.op = "cantor_unpairing"
    /\ last.z = U64(20)
    /\ last.ret = AsI64Pair(<<0, -3>>)

\* C8: for every i64 n, naturalize(n) is 2n for n >= 0 and 2|n| - 1 for
\* n < 0, and denaturalize(naturalize(n)) = n; for every u64 u,
\* denaturalize(u) is u/2 for even u and -(u + 1)/2 for odd u.
C8_ZigzagOnAllInputs ==
    /\ last.op = "naturalize" =>
          last.ret = Zigzag(last.n) /\ denaturalize(last.ret) = last.n
    /\ last.op = "denaturalize" =>
          last.ret = (IF NIsOdd(last.n)
                      THEN i64_pattern(TRUE, NDivSmall(NAdd(last.n, <<1>>), 2))
                      ELSE NDivSmall(last.n, 2))

\* C9 (as amended): for |x|, |y| < 2^30, cantor_pairing overflows nowhere
\* (it returns, with overflow checks on and off) and returns exactly
\* T(nx + ny) + ny; Pair(0, 0) = 0 and Pair(0, 1) = 5.
C9_PairingExactBelow2Pow30 ==
    (last.op = "cantor_pairing" /\ MagBelow(last.x, 30) /\ MagBelow(last.y, 30)) =>
        /\ last.ret = PairExact(last.x, last.y)
        /\ <<last.x, last.y>> = AsI64Pair(<<0, 0>>) => last.ret = U64(0)
        /\ <<last.x, last.y>> = AsI64Pair(<<0, 1>>) => last.ret = U64(5)

\* the pair (2^30 - 1, -(2^30 - 1)) was paired with overflow checks on
C9_Witness ==
    /\ overflow_checks
    /\ last.op = "cantor_pairing"
    /\ last.x = i64_pattern(FALSE, NearPow2(30, -1))
    /\ last.y = i64_pattern(TRUE, NearPow2(30, -1))
    /\ last.ret = PairExact(last.x, last.y)

\* C9 as claimed: the same for |x|, |y| < 2^31.
C9_PairingExactBelow2Pow31 ==
    (last.op = "cantor_pairing" /\ MagBelow(last.x, 31) /\ MagBelow(last.y, 31)) =>
        last.ret = PairExact(last.x, last.y)

\* C10: for every index z with 8z + 1 in u64, the diagonal number w that
\* cantor_unpairing works with is the largest with T(w) <= z, and the
\* subtractions z - T(w) and w - y do not underflow.
C10_DiagonalIsExact ==
    (last.op = "cantor_unpairing"
     /\ NLess(NAdd(NMulSmall(last.z, 8), <<1>>), TwoTo64)) =>
        /\ NLeq(Triangular(cantor_diagonal(last.z)), last.z)
        /\ NLess(last.z, Triangular(NAdd(cantor_diagonal(last.z), <<1>>)))
        /\ last.ret # Panic

====
